---- MODULE Spec2Model ----
(***************************************************************************)
(* Model of xtesting/core/mts.py: the MTSLauncher driver.                  *)
(*                                                                         *)
(* Spec       sequences of run() calls on one driver, stepping through     *)
(*            parse_xml_test_file, execute, the subprocess launch and      *)
(*            parse_results, over a small file system (the result CSV and  *)
(*            the two output directories).                                 *)
(* SpecParse  parse_results() called directly, any number of times, on a   *)
(*            driver whose result CSV holds an arbitrary bounded content.  *)
(* SpecCheck  parse_xml_test_file() and check_enabled_mts_test_cases()      *)
(*            called directly, in any order.                               *)
(***************************************************************************)
EXTENDS Integers, Sequences, FiniteSets, TLC

VARIABLES
    \* fields of the driver object
    total_tests, pass_tests, fail_tests, skip_tests,
    result,              \* a rational <<numerator, denominator>>, reduced
    testcases,           \* names extracted by parse_xml_test_file
    start_time, stop_time,
    \* the file system the driver works on
    mts_result_csv_file, \* [kind, rows, by]: the entry at $MTS_HOME/logs/testPlan.csv
    mts_stats_dir,       \* state of the entry at res_dir/mts_stats_report
    mts_logs_dir,        \* state of the entry at res_dir/mts_logs/
    \* the frame of the run() call in progress
    pc,                  \* position in run()
    kwargs,              \* the keyword arguments of the call
    nb_testcases,        \* local of run()
    exit_code,           \* local of run()
    ret,                 \* what execute() returned in this call
    \* history
    launched,            \* the subprocess was started in this run() call
    check_ok,            \* what check_enabled_mts_test_cases returned in this call
    declared,            \* names declared by the last well-formed XML document parsed
    had_csv,             \* a result CSV file existed when this run() call began
    parse_outcome,       \* how the parse_results() of this call ended
    prev,                \* counters and result just before the last parse_results()
    returned,            \* what the last completed run() returned
    runs, parses, now

driver == <<total_tests, pass_tests, fail_tests, skip_tests, result, testcases,
            start_time, stop_time>>
files  == <<mts_result_csv_file, mts_stats_dir, mts_logs_dir>>
frame  == <<pc, kwargs, nb_testcases, exit_code, ret>>
hist   == <<launched, check_ok, declared, had_csv, parse_outcome, prev, returned, runs,
            parses, now>>
vars   == <<driver, files, frame, hist>>

----------------------------------------------------------------------------
(* Bounds *)

MaxRuns    == 2   \* run() calls in a behaviour of Spec
MaxParses  == 2   \* direct parse_results() calls in a behaviour of SpecParse
MaxRows    == 3   \* rows after the header of a CSV in SpecParse
MaxRunRows == 2   \* rows after the header of a CSV the subprocess writes in Spec
MaxNames   == 2   \* testcase nodes of an XML test file
MaxEnabled == 2   \* names of a "testcases" argument

----------------------------------------------------------------------------
(* Program constants *)

EX_OK        == 0
EX_RUN_ERROR == 70
None         == "None"

\* Optional values of the frame: <<>> while unset, <<v>> once set to v.
Unset   == <<>>
Some(v) == <<v>>

\* Exception classes raised by the steps; all derive from Exception.
Exceptions == {"KeyError", "OSError", "XMLSyntaxError", "UnboundLocalError"}

----------------------------------------------------------------------------
(* Inputs *)

Names == {"tc1", "tc2"}

SeqsUpTo(S, n) == UNION {[1..k -> S] : k \in 0..n}

\* kwargs of run(): "test_file" and "testcases" are each present or not.
NoKwargs == [k \in {} |-> None]
KwargsChoices ==
    LET tf == {NoKwargs, [k \in {"test_file"} |-> "test.xml"]}
        tc == {NoKwargs} \cup
              {[k \in {"testcases"} |-> e] : e \in SeqsUpTo(Names, MaxEnabled)}
    IN  {a @@ b : a \in tf, b \in tc}

\* What reading the XML test file gives: a well-formed document declaring a
\* list of testcase names, a document that is not well-formed, or no file.
XmlDocs ==
    {[kind |-> "xml", names |-> n] : n \in SeqsUpTo(Names, MaxNames)}
    \cup {[kind |-> "malformed", names |-> <<>>],
          [kind |-> "unreadable", names |-> <<>>]}

\* Rows of testPlan.csv as csv.reader yields them: lists of string fields.
Header == <<"name", "time", "OK">>
GroupRow == <<"test1", "">>
BodyRows == {GroupRow,
             <<"  tc1", "", "OK">>, <<"  tc1", "", "Failed">>,
             <<"  tc1", "", "?">>, <<"  tc1", "", "KO">>,
             <<>>, <<"a", "b", "c", "OK">>}

\* The rows of the CSVs met in Spec: group rows and passed testcases.
RunRows == {GroupRow, <<"  tc1", "", "OK">>}

\* An empty file, or the header and up to n of the given rows.
CsvContents(rows, n) == {<<>>} \cup {<<Header>> \o b : b \in SeqsUpTo(rows, n)}

NoCsv  == [kind |-> "absent", rows |-> <<>>, by |-> 0]
DirCsv == [kind |-> "dir", rows |-> <<>>, by |-> 0]
CsvFile(rows, r) == [kind |-> "file", rows |-> rows, by |-> r]

DirStates == {"absent", "file", "empty", "nonempty"}

----------------------------------------------------------------------------
(* parse_results *)

RECURSIVE GCD(_, _)
GCD(a, b) == IF b = 0 THEN a ELSE GCD(b, a % b)

Ratio(n, d) == LET g == GCD(n, d) IN <<n \div g, d \div g>>

\* self.result = 100 * (self.pass_tests / self.total_tests), true division
PercentageFloor(pass, total) == <<100 * (pass \div total), 1>>
Percentage(pass, total) == Ratio(100 * pass, total)

\* The loop body, lines 78-103.  st.bound: the local test_name is bound.
ParseRow(st, row) ==
    IF st.exc # None THEN st
    ELSE IF st.rownum > 0 /\ Len(row) = 2
    THEN [st EXCEPT !.bound = TRUE, !.rownum = @ + 1]
    ELSE IF st.rownum > 0 /\ Len(row) = 3
    THEN LET status == row[3]
             c == [st EXCEPT
                     !.total = @ + 1,
                     !.pass = IF status = "OK" THEN @ + 1 ELSE @,
                     !.fail = IF status = "Failed" THEN @ + 1 ELSE @,
                     !.skip = IF status = "?" THEN @ + 1 ELSE @]
         IN  IF st.bound
             THEN [c EXCEPT !.rownum = @ + 1]
             ELSE [c EXCEPT !.exc = "UnboundLocalError"]
    ELSE [st EXCEPT !.rownum = @ + 1]

RECURSIVE ParseRows(_, _, _)
ParseRows(st, rows, i) ==
    IF i > Len(rows) THEN st ELSE ParseRows(ParseRow(st, rows[i]), rows, i + 1)

\* The whole of parse_results on the driver's counters d = [total, pass, fail,
\* skip, result] and the entry at the CSV path.
ParseResultsOn(d, csv) ==
    IF csv.kind # "file"
    THEN [d EXCEPT !.exc = "OSError"]
    ELSE LET st == ParseRows([total |-> d.total, pass |-> d.pass,
                              fail |-> d.fail, skip |-> d.skip,
                              rownum |-> 0, bound |-> FALSE, exc |-> None],
                             csv.rows, 1)
             res == IF st.exc # None \/ st.total = 0 THEN d.result
                    ELSE Percentage(st.pass, st.total)
         IN  [total |-> st.total, pass |-> st.pass, fail |-> st.fail,
              skip |-> st.skip, result |-> res, exc |-> st.exc]

Counters == [total |-> total_tests, pass |-> pass_tests, fail |-> fail_tests,
             skip |-> skip_tests, result |-> result, exc |-> None]

\* parse_results() called on the driver; what is raised is left in parse_outcome.
parse_results ==
    LET o == ParseResultsOn(Counters, mts_result_csv_file)
    IN  /\ total_tests' = o.total
        /\ pass_tests' = o.pass
        /\ fail_tests' = o.fail
        /\ skip_tests' = o.skip
        /\ result' = o.result
        /\ parse_outcome' = IF o.exc = None THEN "ok" ELSE o.exc
        /\ prev' = Counters
        /\ parses' = parses + 1

----------------------------------------------------------------------------
(* parse_xml_test_file, check_enabled_mts_test_cases *)

\* parse_xml_test_file on a readable document: the count returned and the
\* value of self.testcases afterwards.  XMLSyntaxError is caught inside.
ParseXmlTestFile(doc, old) ==
    IF doc.kind = "xml"
    THEN [nb |-> Len(doc.names), testcases |-> doc.names]
    ELSE [nb |-> -1, testcases |-> old]

InSeq(x, s) == \E i \in 1..Len(s) : s[i] = x

CheckSkipped(enabled_testcases, universe) == TRUE
CheckAnyEnabled(enabled_testcases, universe) ==
    \/ enabled_testcases = <<>>
    \/ \E i \in 1..Len(enabled_testcases) : InSeq(enabled_testcases[i], universe)
check_enabled_mts_test_cases(enabled_testcases, universe) ==
    \/ enabled_testcases = <<>>
    \/ \A i \in 1..Len(enabled_testcases) : InSeq(enabled_testcases[i], universe)

----------------------------------------------------------------------------
(* execute: the reset of the run outputs, lines 199-210 *)

KeepCsv(csv) ==
    IF csv.kind = "dir" THEN [entry |-> csv, exc |-> "OSError"]
    ELSE [entry |-> csv, exc |-> None]
\* if os.path.exists(csv): os.remove(csv)
RemoveCsv(csv) ==
    IF csv.kind = "file" THEN [entry |-> NoCsv, exc |-> None]
    ELSE IF csv.kind = "dir" THEN [entry |-> csv, exc |-> "OSError"]
    ELSE [entry |-> csv, exc |-> None]

\* if os.path.isdir(d): shutil.rmtree(d) ; os.makedirs(d)
RecreateDir(d) ==
    IF d = "file" THEN [entry |-> d, exc |-> "OSError"]
    ELSE [entry |-> "empty", exc |-> None]

ResetOutputs(csv, stats, logs) ==
    LET c == RemoveCsv(csv)
        s == RecreateDir(stats)
        l == RecreateDir(logs)
    IN  IF c.exc # None
        THEN [csv |-> c.entry, stats |-> stats, logs |-> logs, exc |-> c.exc]
        ELSE IF s.exc # None
        THEN [csv |-> c.entry, stats |-> stats, logs |-> logs, exc |-> s.exc]
        ELSE [csv |-> c.entry, stats |-> s.entry, logs |-> l.entry, exc |-> l.exc]

----------------------------------------------------------------------------
(* run *)

\* except Exception: every exception class of the steps is caught.
RunCatchesKeyError(exc) == exc = "KeyError"
RunCatches(exc) == exc \in Exceptions

\* if nb_testcases > 0
RunGateNonZero(nb) == nb # 0
RunGate(nb) == nb > 0

\* exit_code after the try around parse_results(), lines 235-242
ExitKeepOk(outcome) == EX_OK
ExitAfterParse(outcome) == IF outcome \in Exceptions THEN EX_RUN_ERROR ELSE EX_OK

\* An exception reaching the handler of run(), line 243.
Raised(exc) == pc' = IF RunCatches(exc) THEN "finish" ELSE "escaped"

\* Lines 226-228.
RunBegin ==
    /\ pc = "idle"
    /\ runs < MaxRuns
    /\ \E kw \in KwargsChoices : kwargs' = kw
    /\ start_time' = now
    /\ now' = now + 1
    /\ exit_code' = EX_RUN_ERROR
    /\ result' = <<0, 1>>
    /\ pc' = "parse_xml"
    /\ runs' = runs + 1
    /\ nb_testcases' = Unset
    /\ ret' = Unset
    /\ launched' = FALSE
    /\ check_ok' = Unset
    /\ had_csv' = (mts_result_csv_file.kind = "file")
    /\ parse_outcome' = "none"
    /\ UNCHANGED <<total_tests, pass_tests, fail_tests, skip_tests, testcases,
                   stop_time, files, declared, prev, returned, parses>>

\* Line 230 and the test of line 233.
ParseXml ==
    /\ pc = "parse_xml"
    /\ IF "test_file" \notin DOMAIN kwargs
       THEN /\ Raised("KeyError")
            /\ UNCHANGED <<testcases, nb_testcases, declared>>
       ELSE \E doc \in XmlDocs :
              IF doc.kind = "unreadable"
              THEN /\ Raised("OSError")
                   /\ UNCHANGED <<testcases, nb_testcases, declared>>
              ELSE LET r == ParseXmlTestFile(doc, testcases)
                   IN  /\ testcases' = r.testcases
                       /\ nb_testcases' = Some(r.nb)
                       /\ declared' = IF doc.kind = "xml" THEN doc.names ELSE declared
                       /\ pc' = IF RunGate(r.nb) THEN "execute" ELSE "finish"
    /\ UNCHANGED <<total_tests, pass_tests, fail_tests, skip_tests, result,
                   start_time, stop_time, files, kwargs, exit_code, ret,
                   launched, check_ok, had_csv, parse_outcome, prev, returned,
                   runs, parses, now>>

\* execute() from its entry to the call of the base class, lines 165-216.
Execute ==
    /\ pc = "execute"
    /\ LET enabled_testcases ==
               IF "testcases" \in DOMAIN kwargs THEN kwargs.testcases ELSE <<>>
           ok == check_enabled_mts_test_cases(enabled_testcases, testcases)
           r == ResetOutputs(mts_result_csv_file, mts_stats_dir, mts_logs_dir)
       IN  IF "test_file" \notin DOMAIN kwargs
           THEN /\ ret' = Some(-1)
                /\ pc' = "finish"
                /\ UNCHANGED <<files, check_ok>>
           ELSE IF enabled_testcases # <<>> /\ ~ok
           THEN /\ check_ok' = Some(FALSE)
                /\ ret' = Some(-3)
                /\ pc' = "finish"
                /\ UNCHANGED files
           ELSE /\ check_ok' = IF enabled_testcases # <<>> THEN Some(TRUE) ELSE Unset
                /\ mts_result_csv_file' = r.csv
                /\ mts_stats_dir' = r.stats
                /\ mts_logs_dir' = r.logs
                /\ IF r.exc # None
                   THEN Raised(r.exc) /\ UNCHANGED ret
                   ELSE pc' = "launch" /\ UNCHANGED ret
    /\ UNCHANGED <<driver, kwargs, nb_testcases, exit_code, launched, declared,
                   had_csv, parse_outcome, prev, returned, runs, parses, now>>

\* Exit codes of the subprocess.
ReturnCodes == {0, 1}

\* The call of the base class's execute (line 217) and the tests of lines
\* 234-235: the subprocess runs and exits, or the call raises.
Launch ==
    /\ pc = "launch"
    /\ \/ \E rc \in ReturnCodes :
            /\ launched' = TRUE
            /\ ret' = Some(rc)
            /\ \/ UNCHANGED mts_result_csv_file
               \/ \E c \in CsvContents(RunRows, MaxRunRows) :
                    mts_result_csv_file' = CsvFile(c, runs)
            /\ \/ UNCHANGED <<mts_stats_dir, mts_logs_dir>>
               \/ mts_stats_dir' = "nonempty" /\ mts_logs_dir' = "nonempty"
            /\ IF rc = 0
               THEN exit_code' = EX_OK /\ pc' = "parse_results"
               ELSE UNCHANGED exit_code /\ pc' = "finish"
       \/ \E exc \in {"KeyError", "OSError"} :
            /\ UNCHANGED <<launched, files, exit_code>>
            /\ IF exc = "KeyError"
               THEN ret' = Some(-1) /\ pc' = "finish"
               ELSE UNCHANGED ret /\ Raised(exc)
    /\ UNCHANGED <<driver, kwargs, nb_testcases, check_ok, declared, had_csv,
                   parse_outcome, prev, returned, runs, parses, now>>

\* Lines 236-242.
ParseResults ==
    /\ pc = "parse_results"
    /\ parse_results
    /\ exit_code' = ExitAfterParse(parse_outcome')
    /\ pc' = "finish"
    /\ UNCHANGED <<testcases, start_time, stop_time, files, kwargs,
                   nb_testcases, ret, launched, check_ok, declared, had_csv,
                   returned, runs, now>>

\* Lines 245-246.
RunEnd ==
    /\ pc = "finish"
    /\ stop_time' = now
    /\ now' = now + 1
    /\ returned' = Some(exit_code)
    /\ pc' = "idle"
    /\ UNCHANGED <<total_tests, pass_tests, fail_tests, skip_tests, result,
                   testcases, start_time, files, kwargs, nb_testcases,
                   exit_code, ret, launched, check_ok, declared, had_csv,
                   parse_outcome, prev, runs, parses>>

\* __init__, lines 45-62, and the timing fields of the base class.
InitDriver ==
    /\ total_tests = 0
    /\ pass_tests = 0
    /\ fail_tests = 0
    /\ skip_tests = 0
    /\ result = <<0, 1>>
    /\ testcases = <<>>
    /\ start_time = 0
    /\ stop_time = 0

InitFrame ==
    /\ pc = "idle"
    /\ kwargs = NoKwargs
    /\ nb_testcases = Unset
    /\ exit_code = EX_RUN_ERROR
    /\ ret = Unset
    /\ launched = FALSE
    /\ check_ok = Unset
    /\ declared = <<>>
    /\ had_csv = FALSE
    /\ parse_outcome = "none"
    /\ prev = Counters
    /\ returned = Unset
    /\ runs = 0
    /\ parses = 0
    /\ now = 1

Init ==
    /\ InitDriver
    /\ InitFrame
    /\ mts_result_csv_file \in
         {NoCsv, DirCsv} \cup {CsvFile(c, 0) : c \in CsvContents(RunRows, MaxRunRows)}
    /\ mts_stats_dir \in DirStates
    /\ mts_logs_dir \in DirStates

Next == RunBegin \/ ParseXml \/ Execute \/ Launch \/ ParseResults \/ RunEnd

Spec == Init /\ [][Next]_vars

----------------------------------------------------------------------------
(* parse_results() called directly *)

DirectParse ==
    /\ pc = "idle"
    /\ parses < MaxParses
    /\ parse_results
    /\ UNCHANGED <<testcases, start_time, stop_time, files, frame, launched,
                   check_ok, declared, had_csv, returned, runs, now>>

InitParse ==
    /\ InitDriver
    /\ InitFrame
    /\ mts_result_csv_file \in
         {NoCsv} \cup {CsvFile(c, 0) : c \in CsvContents(BodyRows, MaxRows)}
    /\ mts_stats_dir = "absent"
    /\ mts_logs_dir = "absent"

NextParse == DirectParse

SpecParse == InitParse /\ [][NextParse]_vars

----------------------------------------------------------------------------
(* parse_xml_test_file() and check_enabled_mts_test_cases() called directly *)

DirectParseXml ==
    /\ pc = "idle"
    /\ \E doc \in XmlDocs :
         /\ doc.kind # "unreadable"
         /\ LET r == ParseXmlTestFile(doc, testcases)
            IN  /\ testcases' = r.testcases
                /\ nb_testcases' = Some(r.nb)
                /\ declared' = IF doc.kind = "xml" THEN doc.names ELSE declared
    /\ check_ok' = Unset
    /\ kwargs' = NoKwargs
    /\ UNCHANGED <<total_tests, pass_tests, fail_tests, skip_tests, result,
                   start_time, stop_time, files, pc, exit_code, ret, launched,
                   had_csv, parse_outcome, prev, returned, runs, parses, now>>

DirectCheck ==
    /\ pc = "idle"
    /\ \E e \in SeqsUpTo(Names, MaxEnabled) :
         /\ kwargs' = [k \in {"testcases"} |-> e]
         /\ check_ok' = Some(check_enabled_mts_test_cases(e, testcases))
    /\ UNCHANGED <<driver, files, pc, nb_testcases, exit_code, ret, launched,
                   declared, had_csv, parse_outcome, prev, returned, runs,
                   parses, now>>

InitCheck ==
    /\ InitDriver
    /\ InitFrame
    /\ mts_result_csv_file = NoCsv
    /\ mts_stats_dir = "absent"
    /\ mts_logs_dir = "absent"

NextCheck == DirectParseXml \/ DirectCheck

SpecCheck == InitCheck /\ [][NextCheck]_vars

----------------------------------------------------------------------------
(* Properties *)

Enabled == IF "testcases" \in DOMAIN kwargs THEN kwargs.testcases ELSE <<>>
RunOver == pc = "idle" /\ runs > 0
ParsedCount == IF nb_testcases = Unset THEN -1 ELSE nb_testcases[1]

\* C1: run() lets no exception escape, returns EX_OK or EX_RUN_ERROR, and has
\* recorded the stop timestamp of this call when it returns.
InvC1 ==
    /\ pc # "escaped"
    /\ RunOver => /\ returned \in {Some(EX_OK), Some(EX_RUN_ERROR)}
                  /\ stop_time > start_time

\* A second run(), called without test_file, returned EX_RUN_ERROR.
WitC1 ==
    /\ RunOver
    /\ runs = 2
    /\ "test_file" \notin DOMAIN kwargs
    /\ returned = Some(EX_RUN_ERROR)

\* C2: when parse_xml_test_file returns a count <= 0 (no testcase, or -1 for
\* malformed XML) the subprocess is not launched, the report is not parsed and
\* run() returns EX_RUN_ERROR.
InvC2 ==
    (nb_testcases # Unset /\ ParsedCount <= 0) =>
        /\ pc \in {"finish", "idle"}
        /\ ~launched
        /\ ret = Unset
        /\ parse_outcome = "none"
        /\ exit_code = EX_RUN_ERROR
        /\ pc = "idle" => returned = Some(EX_RUN_ERROR)

\* A run() on malformed XML returned.
WitC2 == RunOver /\ nb_testcases = Some(-1) /\ returned = Some(EX_RUN_ERROR)

\* C3: run() returns EX_OK exactly when the count is positive, execute()
\* returned 0 and parse_results() did not raise; the report is parsed only
\* after a zero exit code; a parse failure gives EX_RUN_ERROR.
InvC3 ==
    /\ parse_outcome # "none" => ret = Some(0)
    /\ pc \in {"finish", "idle"} =>
         (exit_code = EX_OK <=>
            (ParsedCount > 0 /\ ret = Some(0) /\ parse_outcome = "ok"))
    /\ RunOver => returned = Some(exit_code)

\* The subprocess exited with 0 and left no result CSV: run() returned
\* EX_RUN_ERROR.
WitC3 ==
    /\ RunOver
    /\ ret = Some(0)
    /\ mts_result_csv_file.kind = "absent"
    /\ parse_outcome = "OSError"
    /\ returned = Some(EX_RUN_ERROR)

\* Some requested name is not declared by the XML document parsed in this call.
BadSelection ==
    /\ ParsedCount >= 0
    /\ \E i \in 1..Len(Enabled) : ~InSeq(Enabled[i], declared)

\* C4: with a requested name that the parsed definition does not declare,
\* execute() returns -3 without starting the subprocess and run() returns
\* EX_RUN_ERROR.
InvC4 ==
    BadSelection =>
        /\ pc \notin {"launch", "parse_results"}
        /\ ~launched
        /\ parse_outcome = "none"
        /\ (pc \in {"finish", "idle"} /\ ParsedCount > 0) => ret = Some(-3)
        /\ pc \in {"finish", "idle"} => exit_code = EX_RUN_ERROR
        /\ pc = "idle" => returned = Some(EX_RUN_ERROR)

\* Two declared testcases, a requested name that is not among them, rejected.
WitC4 ==
    /\ RunOver
    /\ BadSelection
    /\ ParsedCount = 2
    /\ ret = Some(-3)
    /\ returned = Some(EX_RUN_ERROR)

Tally == <<total_tests, pass_tests, fail_tests, skip_tests>>
TallyOf(d) == <<d.total, d.pass, d.fail, d.skip>>

\* C5: parsing the same CSV content a second time leaves the counters as the
\* first parse produced them.
CexC5 ==
    (parses >= 2 /\ parse_outcome = "ok") => Tally = TallyOf(prev)

RECURSIVE Unrecognized(_, _)
Unrecognized(rows, i) ==
    IF i > Len(rows) THEN 0
    ELSE (IF Len(rows[i]) = 3 /\ rows[i][3] \notin {"OK", "Failed", "?"}
          THEN 1 ELSE 0) + Unrecognized(rows, i + 1)

\* C6: after parse_results the total is the sum of the pass, fail and skip
\* counters and of the number of 3-field rows after the header whose status
\* is none of "OK", "Failed", "?".
CexC6 ==
    (parses >= 1 /\ mts_result_csv_file.kind = "file") =>
        total_tests = pass_tests + fail_tests + skip_tests
                      + Unrecognized(mts_result_csv_file.rows, 2)

ScenarioC == <<Header, GroupRow, <<"  tc1", "", "OK">>, <<"  tc1", "", "Failed">>>>
ScenarioD == <<Header, <<"  tc1", "", "?">>>>

\* C7: after parse_results has read the whole CSV, result = 100 * pass / total
\* when total > 0 (scenario C: 2, 1, 1, 0 and 50); when total = 0 it does not
\* raise and result is what it was before the call.
InvC7 ==
    /\ (parse_outcome = "ok" /\ total_tests > 0) =>
          /\ result[2] > 0
          /\ result[1] * total_tests = 100 * pass_tests * result[2]
    /\ (parses >= 1 /\ mts_result_csv_file.kind = "file" /\ total_tests = 0) =>
          /\ parse_outcome = "ok"
          /\ result = prev.result
    /\ (parses = 1 /\ mts_result_csv_file.rows = ScenarioC) =>
          /\ parse_outcome = "ok"
          /\ Tally = <<2, 1, 1, 0>>
          /\ result = <<50, 1>>

\* Scenario C has been parsed once.
WitC7 ==
    /\ parses = 1
    /\ mts_result_csv_file.rows = ScenarioC
    /\ parse_outcome = "ok"
    /\ result = <<50, 1>>

\* C8: a CSV made of the header and one 3-field row of status "?", with no
\* group row, is parsed to skip = 1, total = 1, percentage 0.
CexC8 ==
    (parses = 1 /\ mts_result_csv_file.rows = ScenarioD) =>
        /\ parse_outcome = "ok"
        /\ skip_tests = 1
        /\ total_tests = 1
        /\ result = <<0, 1>>

\* C9: check_enabled_mts_test_cases returns true iff every requested name is
\* among the names of the last parsed definition: true for an empty request,
\* false for a non-empty request when no name is declared.
InvC9 ==
    check_ok # Unset =>
        /\ check_ok = Some(\A i \in 1..Len(Enabled) : InSeq(Enabled[i], declared))
        /\ Enabled = <<>> => check_ok = Some(TRUE)
        /\ (Enabled # <<>> /\ declared = <<>>) => check_ok = Some(FALSE)

\* A request of two names, one declared and one not, was refused.
WitC9 ==
    /\ check_ok = Some(FALSE)
    /\ Len(Enabled) = 2
    /\ InSeq(Enabled[1], declared)
    /\ ~InSeq(Enabled[2], declared)

\* C10: when the subprocess is started the result CSV does not exist and both
\* output directories exist and are empty; a report that is parsed was written
\* by the subprocess of the same run() call.
InvC10 ==
    /\ pc = "launch" =>
          /\ mts_result_csv_file.kind = "absent"
          /\ mts_stats_dir = "empty"
          /\ mts_logs_dir = "empty"
    /\ (pc = "parse_results" /\ mts_result_csv_file.kind = "file") =>
          /\ launched
          /\ mts_result_csv_file.by = runs

\* The second run() found the first one's CSV and parses the one of its own
\* subprocess.
WitC10 ==
    /\ pc = "parse_results"
    /\ runs = 2
    /\ had_csv
    /\ mts_result_csv_file.kind = "file"

====
